---------------------------- MODULE Spec2Model ----------------------------
(***************************************************************************)
(* Model of mikoko_guardian/agent.py: two static tables and the five tool  *)
(* functions the agent registers.                                          *)
(*                                                                         *)
(* Python strings are sequences of one-character strings, so that lower(), *)
(* upper(), title() and the `in` substring test are computed and not       *)
(* assumed.  Free text that the code only stores and returns (never        *)
(* inspects) is kept as an opaque TLA+ string.                             *)
(*                                                                         *)
(* Python numbers are records [t, n, d]: t is the Python type ("int" or    *)
(* "float"), n/d the value as a reduced fraction; the floats nan, inf and  *)
(* -inf are values of their own.  Finite float products are the exact      *)
(* rational products (IEEE rounding of the last bit is not modelled).      *)
(***************************************************************************)
EXTENDS Integers, Sequences, FiniteSets, TLC

VARIABLES species, regions, call, result, calls

vars == <<species, regions, call, result, calls>>

(***************************************************************************)
(* Bounds of the model.                                                    *)
(***************************************************************************)
MaxArea == 10

MaxCalls == 2

(***************************************************************************)
(* str.lower, str.upper, str.title, and the `in` operator on strings.      *)
(***************************************************************************)
LowerLetters == <<"a", "b", "c", "d", "e", "f", "g", "h", "i", "j", "k", "l", "m",
                  "n", "o", "p", "q", "r", "s", "t", "u", "v", "w", "x", "y", "z">>

UpperLetters == <<"A", "B", "C", "D", "E", "F", "G", "H", "I", "J", "K", "L", "M",
                  "N", "O", "P", "Q", "R", "S", "T", "U", "V", "W", "X", "Y", "Z">>

\* str.lower() and str.upper() of one character
LowerOf ==
    [c \in {UpperLetters[i] : i \in 1..Len(UpperLetters)} |->
        LowerLetters[CHOOSE i \in 1..Len(UpperLetters) : UpperLetters[i] = c]]

UpperOf ==
    [c \in {LowerLetters[i] : i \in 1..Len(LowerLetters)} |->
        UpperLetters[CHOOSE i \in 1..Len(LowerLetters) : LowerLetters[i] = c]]

IsLowerChar(c) == c \in DOMAIN UpperOf

IsUpperChar(c) == c \in DOMAIN LowerOf

IsCased(c) == IsLowerChar(c) \/ IsUpperChar(c)

LowerChar(c) == IF IsUpperChar(c) THEN LowerOf[c] ELSE c

UpperChar(c) == IF IsLowerChar(c) THEN UpperOf[c] ELSE c

Lower(s) == [i \in 1..Len(s) |-> LowerChar(s[i])]

Upper(s) == [i \in 1..Len(s) |-> UpperChar(s[i])]

\* str.title(): a cased character is upper-cased when it starts a run of cased
\* characters and lower-cased inside one; other characters are kept.
Title(s) ==
    [i \in 1..Len(s) |->
        IF ~IsCased(s[i]) THEN s[i]
        ELSE IF i > 1 /\ IsCased(s[i - 1]) THEN LowerChar(s[i])
        ELSE UpperChar(s[i])]

\* str.swapcase(), used only to build mixed-case inputs.
SwapCase(s) ==
    [i \in 1..Len(s) |-> IF IsUpperChar(s[i]) THEN LowerChar(s[i]) ELSE UpperChar(s[i])]

\* a in b  (a occurs in b as a contiguous substring; "" occurs in every string)
In(a, b) ==
    \E i \in 0..(Len(b) - Len(a)) : SubSeq(b, i + 1, i + Len(a)) = a

(***************************************************************************)
(* String literals of the source.                                          *)
(***************************************************************************)
Str_rhizophora_mucronata == <<"r", "h", "i", "z", "o", "p", "h", "o", "r", "a", " ", "m", "u", "c", "r", "o", "n", "a", "t", "a">>
Str_avicennia_marina == <<"a", "v", "i", "c", "e", "n", "n", "i", "a", " ", "m", "a", "r", "i", "n", "a">>
Str_sonneratia_alba == <<"s", "o", "n", "n", "e", "r", "a", "t", "i", "a", " ", "a", "l", "b", "a">>
Str_ceriops_tagal == <<"c", "e", "r", "i", "o", "p", "s", " ", "t", "a", "g", "a", "l">>
Str_bruguiera_gymnorrhiza == <<"b", "r", "u", "g", "u", "i", "e", "r", "a", " ", "g", "y", "m", "n", "o", "r", "r", "h", "i", "z", "a">>
Str_Mkoko == <<"M", "k", "o", "k", "o">>
Str_Mchu == <<"M", "c", "h", "u">>
Str_Mlilana == <<"M", "l", "i", "l", "a", "n", "a">>
Str_Mkandaa == <<"M", "k", "a", "n", "d", "a", "a">>
Str_Muia == <<"M", "u", "i", "a">>
Str_mida_creek == <<"m", "i", "d", "a", " ", "c", "r", "e", "e", "k">>
Str_gazi_bay == <<"g", "a", "z", "i", " ", "b", "a", "y">>
Str_lamu_archipelago == <<"l", "a", "m", "u", " ", "a", "r", "c", "h", "i", "p", "e", "l", "a", "g", "o">>
Str_vanga == <<"v", "a", "n", "g", "a">>
Str_mombasa == <<"m", "o", "m", "b", "a", "s", "a">>
Str_Kilifi == <<"K", "i", "l", "i", "f", "i">>
Str_Kwale == <<"K", "w", "a", "l", "e">>
Str_Lamu == <<"L", "a", "m", "u">>
Str_Mombasa == <<"M", "o", "m", "b", "a", "s", "a">>
Str_young == <<"y", "o", "u", "n", "g">>
Str_middle_aged == <<"m", "i", "d", "d", "l", "e", "-", "a", "g", "e", "d">>
Str_mature == <<"m", "a", "t", "u", "r", "e">>
Str_Rhizophora_mucronata == <<"R", "h", "i", "z", "o", "p", "h", "o", "r", "a", " ", "m", "u", "c", "r", "o", "n", "a", "t", "a">>
Str_Avicennia_marina == <<"A", "v", "i", "c", "e", "n", "n", "i", "a", " ", "m", "a", "r", "i", "n", "a">>
Str_Sonneratia_alba == <<"S", "o", "n", "n", "e", "r", "a", "t", "i", "a", " ", "a", "l", "b", "a">>
Str_Generic_plan == <<"G", "e", "n", "e", "r", "i", "c", " ", "p", "l", "a", "n">>

(***************************************************************************)
(* The two tables.  A Python dict keeps insertion order, so a table is the *)
(* sequence of its items, each carrying its key in the field `name`.       *)
(***************************************************************************)
KENYA_MANGROVE_SPECIES ==
    << [name |-> Str_rhizophora_mucronata, swahili_name |-> Str_Mkoko,
        characteristics |-> "Distinctive prop roots, elongated propagules",
        uses |-> "Timber, firewood, boat building",
        conservation_status |-> "Vulnerable in many areas"],
       [name |-> Str_avicennia_marina, swahili_name |-> Str_Mchu,
        characteristics |-> "Grey-green leaves, pencil-like pneumatophores",
        uses |-> "Medicinal purposes, honey production",
        conservation_status |-> "Relatively stable"],
       [name |-> Str_sonneratia_alba, swahili_name |-> Str_Mlilana,
        characteristics |-> "White flowers, round fruits, conical pneumatophores",
        uses |-> "Fruits are edible, wood for construction",
        conservation_status |-> "Declining in some areas"],
       [name |-> Str_ceriops_tagal, swahili_name |-> Str_Mkandaa,
        characteristics |-> "Small tree, club-shaped propagules with ridges",
        uses |-> "Dye production, poles for construction",
        conservation_status |-> "Threatened by harvesting"],
       [name |-> Str_bruguiera_gymnorrhiza, swahili_name |-> Str_Muia,
        characteristics |-> "Knee-like roots, red flowers, long propagules",
        uses |-> "Construction, charcoal production",
        conservation_status |-> "Vulnerable"] >>

KENYA_COASTAL_REGIONS ==
    << [name |-> Str_mida_creek, county |-> Str_Kilifi,
        mangrove_area_hectares |-> 1600,
        dominant_species |-> <<Str_rhizophora_mucronata, Str_avicennia_marina>>,
        threats |-> <<"Tourism development", "Wood harvesting", "Climate change">>],
       [name |-> Str_gazi_bay, county |-> Str_Kwale,
        mangrove_area_hectares |-> 615,
        dominant_species |-> <<Str_rhizophora_mucronata, Str_sonneratia_alba, Str_ceriops_tagal>>,
        threats |-> <<"Overharvesting", "Sedimentation", "Coastal erosion">>],
       [name |-> Str_lamu_archipelago, county |-> Str_Lamu,
        mangrove_area_hectares |-> 34000,
        dominant_species |-> <<Str_rhizophora_mucronata, Str_avicennia_marina, Str_bruguiera_gymnorrhiza>>,
        threats |-> <<"Port development", "Oil exploration", "Deforestation">>],
       [name |-> Str_vanga, county |-> Str_Kwale,
        mangrove_area_hectares |-> 4000,
        dominant_species |-> <<Str_rhizophora_mucronata, Str_avicennia_marina>>,
        threats |-> <<"Border disputes", "Illegal cutting", "Pollution">>],
       [name |-> Str_mombasa, county |-> Str_Mombasa,
        mangrove_area_hectares |-> 1900,
        dominant_species |-> <<Str_avicennia_marina, Str_sonneratia_alba>>,
        threats |-> <<"Urban expansion", "Pollution", "Port activities">>] >>

\* key in table
HasKey(tbl, key) == \E i \in 1..Len(tbl) : tbl[i].name = key

\* table[key]
Get(tbl, key) == tbl[CHOOSE i \in 1..Len(tbl) : tbl[i].name = key]

\* x in list
Contains(list, x) == \E i \in 1..Len(list) : list[i] = x

\* the f-string  prefix{arg}suffix
FString(prefix, arg, suffix) == [prefix |-> prefix, arg |-> arg, suffix |-> suffix]

Success(report) == [status |-> "success", report |-> report]

Error(message) == [status |-> "error", error_message |-> message]

(***************************************************************************)
(* identify_mangrove_species                                               *)
(***************************************************************************)
SpeciesReport(display, info) ==
    [species |-> display,
     swahili_name |-> info.swahili_name,
     characteristics |-> info.characteristics,
     uses |-> info.uses,
     conservation_status |-> info.conservation_status]

\* variant: the message formats the normalised name
SpeciesNotFound_lowered(species_name) ==
    Error(FString("Could not identify mangrove species '", Lower(species_name),
                  "'. Please try using scientific name or Swahili name."))

SpeciesNotFound(species_name) ==
    Error(FString("Could not identify mangrove species '", species_name,
                  "'. Please try using scientific name or Swahili name."))

\* variant: the Swahili name is compared without .lower()
RECURSIVE SpeciesPartialMatch_caseSensitive(_, _, _, _)
SpeciesPartialMatch_caseSensitive(tbl, i, species_name, species_name_lower) ==
    IF i > Len(tbl) THEN SpeciesNotFound(species_name)
    ELSE IF In(species_name_lower, tbl[i].name) \/ In(tbl[i].name, species_name_lower)
         THEN Success(SpeciesReport(Title(tbl[i].name), tbl[i]))
    ELSE IF tbl[i].swahili_name = species_name_lower
         THEN Success(SpeciesReport(Title(tbl[i].name), tbl[i]))
    ELSE SpeciesPartialMatch_caseSensitive(tbl, i + 1, species_name, species_name_lower)

\* the loop "for name, info in KENYA_MANGROVE_SPECIES.items()" from item i on
RECURSIVE SpeciesPartialMatch(_, _, _, _)
SpeciesPartialMatch(tbl, i, species_name, species_name_lower) ==
    IF i > Len(tbl) THEN SpeciesNotFound(species_name)
    ELSE IF In(species_name_lower, tbl[i].name) \/ In(tbl[i].name, species_name_lower)
         THEN Success(SpeciesReport(Title(tbl[i].name), tbl[i]))
    ELSE IF Lower(tbl[i].swahili_name) = species_name_lower
         THEN Success(SpeciesReport(Title(tbl[i].name), tbl[i]))
    ELSE SpeciesPartialMatch(tbl, i + 1, species_name, species_name_lower)

identify_mangrove_species(tbl, species_name) ==
    LET species_name_lower == Lower(species_name)
    IN  IF HasKey(tbl, species_name_lower)
        THEN Success(SpeciesReport(Title(species_name), Get(tbl, species_name_lower)))
        ELSE SpeciesPartialMatch(tbl, 1, species_name, species_name_lower)

(***************************************************************************)
(* get_site_information                                                    *)
(***************************************************************************)
\* the loop "for species in info['dominant_species']" from entry i on
RECURSIVE SpeciesInfo(_, _, _)
SpeciesInfo(species_tbl, dominant, i) ==
    IF i > Len(dominant) THEN <<>>
    ELSE IF HasKey(species_tbl, dominant[i])
         THEN << [name |-> Title(dominant[i]),
                  swahili_name |-> Get(species_tbl, dominant[i]).swahili_name] >>
              \o SpeciesInfo(species_tbl, dominant, i + 1)
    ELSE SpeciesInfo(species_tbl, dominant, i + 1)

SiteReport(species_tbl, display, info) ==
    [location |-> display,
     county |-> info.county,
     mangrove_area_hectares |-> info.mangrove_area_hectares,
     dominant_species |-> SpeciesInfo(species_tbl, info.dominant_species, 1),
     threats |-> info.threats]

SiteNotFound(location) ==
    Error(FString("Information about mangroves in '", location,
                  "' is not available in our database."))

\* variant: the county is not compared
RECURSIVE SitePartialMatch_noCounty(_, _, _, _, _)
SitePartialMatch_noCounty(species_tbl, tbl, i, location, location_lower) ==
    IF i > Len(tbl) THEN SiteNotFound(location)
    ELSE IF In(location_lower, tbl[i].name) \/ In(tbl[i].name, location_lower)
         THEN Success(SiteReport(species_tbl, Title(tbl[i].name), tbl[i]))
    ELSE SitePartialMatch_noCounty(species_tbl, tbl, i + 1, location, location_lower)

\* the loop "for name, info in KENYA_COASTAL_REGIONS.items()" from item i on
RECURSIVE SitePartialMatch(_, _, _, _, _)
SitePartialMatch(species_tbl, tbl, i, location, location_lower) ==
    IF i > Len(tbl) THEN SiteNotFound(location)
    ELSE IF \/ In(location_lower, tbl[i].name)
            \/ In(tbl[i].name, location_lower)
            \/ Lower(tbl[i].county) = location_lower
         THEN Success(SiteReport(species_tbl, Title(tbl[i].name), tbl[i]))
    ELSE SitePartialMatch(species_tbl, tbl, i + 1, location, location_lower)

get_site_information(species_tbl, tbl, location) ==
    LET location_lower == Lower(location)
    IN  IF HasKey(tbl, location_lower)
        THEN Success(SiteReport(species_tbl, Title(location), Get(tbl, location_lower)))
        ELSE SitePartialMatch(species_tbl, tbl, 1, location, location_lower)

(***************************************************************************)
(* Python numbers.                                                         *)
(***************************************************************************)
Abs(n) == IF n < 0 THEN -n ELSE n

RECURSIVE GCD(_, _)
GCD(a, b) == IF b = 0 THEN a ELSE GCD(b, a % b)

\* the number n/d (d > 0) of Python type t, as a reduced fraction
Rat(t, n, d) ==
    LET g == GCD(Abs(n), d)
    IN  [t |-> t, n |-> n \div g, d |-> d \div g]

PyInt(n) == [t |-> "int", n |-> n, d |-> 1]

PyFloat(n, d) == Rat("float", n, d)

NaN == [t |-> "nan", n |-> 0, d |-> 1]

PosInf == [t |-> "inf", n |-> 1, d |-> 1]

NegInf == [t |-> "-inf", n |-> -1, d |-> 1]

\* area arguments that are not numbers: a str and None
StrArea == [t |-> "str", n |-> 0, d |-> 1]

NoneArea == [t |-> "NoneType", n |-> 0, d |-> 1]

\* isinstance(x, (int, float)): nan and the infinities are floats
IsIntOrFloat(x) == x.t \in {"int", "float", "nan", "inf", "-inf"}

IsFinite(x) == x.t \in {"int", "float"}

Sign(x) == IF x.n > 0 THEN 1 ELSE IF x.n < 0 THEN -1 ELSE 0

ResultType(x, y) == IF x.t = "int" /\ y.t = "int" THEN "int" ELSE "float"

\* x <= 0: every comparison with nan is False
LeqZero(x) == x.t # "nan" /\ x.n <= 0

\* x * y
Mul(x, y) ==
    IF x.t = "nan" \/ y.t = "nan" THEN NaN
    ELSE IF IsFinite(x) /\ IsFinite(y) THEN Rat(ResultType(x, y), x.n * y.n, x.d * y.d)
    ELSE IF Sign(x) * Sign(y) = 0 THEN NaN
    ELSE IF Sign(x) * Sign(y) > 0 THEN PosInf
    ELSE NegInf

\* x + y
Add(x, y) ==
    IF x.t = "nan" \/ y.t = "nan" THEN NaN
    ELSE IF IsFinite(x) /\ IsFinite(y)
         THEN Rat(ResultType(x, y), x.n * y.d + y.n * x.d, x.d * y.d)
    ELSE IF IsFinite(y) THEN x
    ELSE IF IsFinite(x) THEN y
    ELSE IF x.t = y.t THEN x
    ELSE NaN

\* x / y for a finite y > 0: true division, always a float
TrueDiv(x, y) ==
    IF IsFinite(x) THEN Rat("float", x.n * y.d, x.d * y.n) ELSE x

Raised(exception) == [raised |-> exception]

IsRaised(v) == "raised" \in DOMAIN v

\* int(x): truncation, which raises on nan and on the infinities
IntOf(x) ==
    IF x.t = "nan" THEN Raised("ValueError")
    ELSE IF ~IsFinite(x) THEN Raised("OverflowError")
    ELSE IF x.n >= 0 THEN PyInt(x.n \div x.d)
    ELSE PyInt(-((-x.n) \div x.d))

(***************************************************************************)
(* calculate_carbon_storage                                                *)
(***************************************************************************)
InvalidArea ==
    Error("Please provide a valid positive number for area in hectares.")

carbon_rates ==
    (Str_young :> 143) @@ (Str_middle_aged :> 297) @@ (Str_mature :> 392)

\* variant: the age class is looked up without .lower()
ResolveForestAge_caseSensitive(forest_age) ==
    IF forest_age \in DOMAIN carbon_rates THEN forest_age ELSE Str_mature

\* forest_age = forest_age.lower(); if forest_age not in carbon_rates: "mature"
ResolveForestAge(forest_age) ==
    IF Lower(forest_age) \in DOMAIN carbon_rates THEN Lower(forest_age) ELSE Str_mature

calculate_carbon_storage(area, forest_age) ==
    IF ~IsIntOrFloat(area) \/ LeqZero(area) THEN InvalidArea
    ELSE
      LET age == ResolveForestAge(forest_age)
          carbon_per_hectare == carbon_rates[age]
          total_carbon == Mul(area, PyInt(carbon_per_hectare))
          co2_equivalent == Mul(total_carbon, PyFloat(367, 100))
          carbon_credit_value_usd == Mul(co2_equivalent, PyInt(15))
      IN  Success([area_hectares |-> area,
                   forest_age |-> age,
                   carbon_per_hectare_tons |-> carbon_per_hectare,
                   total_carbon_tons |-> total_carbon,
                   co2_equivalent_tons |-> co2_equivalent,
                   potential_carbon_credit_value_usd |-> carbon_credit_value_usd,
                   note |-> "These are estimates based on general studies of Kenyan mangroves. Actual values may vary based on species composition, health, and local conditions."])

(***************************************************************************)
(* plan_restoration                                                        *)
(***************************************************************************)
\* Optional[str]
NoLocation == [is_none |-> TRUE, str |-> <<>>]

Location(s) == [is_none |-> FALSE, str |-> s]

\* truth value of an Optional[str]: None and "" are false
Truthy(location) == ~location.is_none /\ location.str # <<>>

base_costs ==
    [site_preparation |-> 25000,
     seedling_production |-> 40000,
     planting |-> 35000,
     monitoring_first_year |-> 20000,
     community_engagement |-> 15000]

SumBaseCosts ==
    base_costs.site_preparation + base_costs.seedling_production
    + base_costs.planting + base_costs.monitoring_first_year
    + base_costs.community_engagement

DefaultRecommendedSpecies ==
    <<Str_Rhizophora_mucronata, Str_Avicennia_marina, Str_Sonneratia_alba>>

\* variant: the location is looked up without .lower()
LocationRecognized_caseSensitive(tbl, location) ==
    Truthy(location) /\ HasKey(tbl, location.str)

\* if location: ... if location_lower in KENYA_COASTAL_REGIONS:
LocationRecognized(tbl, location) ==
    Truthy(location) /\ HasKey(tbl, Lower(location.str))

\* "Urban expansion" in info["threats"] or "Pollution" in info["threats"]
PollutionThreat(info) ==
    Contains(info.threats, "Urban expansion") \/ Contains(info.threats, "Pollution")

TourismThreat(info) == Contains(info.threats, "Tourism development")

SedimentationThreat(info) == Contains(info.threats, "Sedimentation")

\* the advisories appended for the site, in the order of the three if-statements
SpecialConsiderations(info) ==
    (IF PollutionThreat(info)
     THEN <<"Community waste management education essential">> ELSE <<>>)
    \o (IF TourismThreat(info)
        THEN <<"Ecotourism integration recommended">> ELSE <<>>)
    \o (IF SedimentationThreat(info)
        THEN <<"Soil erosion control measures required upland">> ELSE <<>>)

\* variant: the pollution surcharge is added once per matching threat
AdjustedCost_perThreat(info, total_cost, area_hectares) ==
    LET after_urban ==
            IF Contains(info.threats, "Urban expansion")
            THEN Add(total_cost, Mul(PyInt(10000), area_hectares))
            ELSE total_cost
        after_pollution ==
            IF Contains(info.threats, "Pollution")
            THEN Add(after_urban, Mul(PyInt(10000), area_hectares))
            ELSE after_urban
    IN  IF SedimentationThreat(info)
        THEN Add(after_pollution, Mul(PyInt(15000), area_hectares))
        ELSE after_pollution

\* variant: the location is reported as passed, without .title()
PlanLocationField_untitled(location) ==
    IF Truthy(location) THEN location.str ELSE Str_Generic_plan

\* location.title() if location else "Generic plan"
PlanLocationField(location) ==
    IF Truthy(location) THEN Title(location.str) ELSE Str_Generic_plan

\* total_cost after the "+=" of the pollution and sedimentation branches
AdjustedCost(info, total_cost, area_hectares) ==
    LET after_pollution ==
            IF PollutionThreat(info)
            THEN Add(total_cost, Mul(PyInt(10000), area_hectares))
            ELSE total_cost
    IN  IF SedimentationThreat(info)
        THEN Add(after_pollution, Mul(PyInt(15000), area_hectares))
        ELSE after_pollution

plan_restoration(tbl, area_hectares, location) ==
    IF ~IsIntOrFloat(area_hectares) \/ LeqZero(area_hectares) THEN InvalidArea
    ELSE
      LET base_total == Mul(PyInt(SumBaseCosts), area_hectares)
          seedlings_needed == IntOf(Mul(area_hectares, PyInt(2000)))
          recognized == LocationRecognized(tbl, location)
          info == Get(tbl, Lower(location.str))
          recommended_species ==
              IF recognized
              THEN [i \in 1..Len(info.dominant_species) |-> Title(info.dominant_species[i])]
              ELSE DefaultRecommendedSpecies
          timeline_months == IF recognized /\ TourismThreat(info) THEN 30 ELSE 24
          special_considerations ==
              IF recognized THEN SpecialConsiderations(info) ELSE <<>>
          total_cost ==
              IF recognized THEN AdjustedCost(info, base_total, area_hectares)
              ELSE base_total
          cost_usd == TrueDiv(total_cost, PyInt(130))
      IN  IF IsRaised(seedlings_needed) THEN seedlings_needed
          ELSE Success(
                [area_hectares |-> area_hectares,
                 location |-> PlanLocationField(location),
                 recommended_species |-> recommended_species,
                 seedlings_needed |-> seedlings_needed,
                 estimated_timeline_months |-> timeline_months,
                 estimated_cost_kes |-> total_cost,
                 estimated_cost_usd |-> cost_usd,
                 special_considerations |-> special_considerations,
                 community_involvement |-> "Recommended to engage local community members in seedling production, planting, and monitoring to ensure long-term sustainability.",
                 next_steps |-> <<"1. Conduct detailed site assessment",
                                  "2. Engage local community stakeholders",
                                  "3. Secure necessary permits from Kenya Forest Service",
                                  "4. Establish community nursery for seedling production",
                                  "5. Implement planting according to lunar calendar (best during spring tides)">>])

(***************************************************************************)
(* answer_general_question.  The external model either returns a response  *)
(* with a text or raises; the whole body is inside try/except Exception.   *)
(***************************************************************************)
Responded(text) == [raises |-> FALSE, text |-> text]

Failed(message) == [raises |-> TRUE, text |-> message]

answer_general_question(question, outcome) ==
    IF outcome.raises
    THEN Error(FString("Unable to answer general question: ", outcome.text, ""))
    ELSE Success([question |-> question, answer |-> outcome.text])

(***************************************************************************)
(* Arguments the callers pass.                                             *)
(***************************************************************************)
Str_rhizophora == <<"r", "h", "i", "z", "o", "p", "h", "o", "r", "a">>
Str_Marina == <<"M", "a", "r", "i", "n", "a">>
Str_a == <<"a">>
Str_the_ceriops_tagal_tree == <<"t", "h", "e", " ", "c", "e", "r", "i", "o", "p", "s", " ", "t", "a", "g", "a", "l", " ", "t", "r", "e", "e">>
Str_oak == <<"o", "a", "k">>
Str_Unknown_Place == <<"U", "n", "k", "n", "o", "w", "n", "-", "P", "l", "a", "c", "e">>
Str_unknown_place == <<"u", "n", "k", "n", "o", "w", "n", "-", "p", "l", "a", "c", "e">>
Str_gazi == <<"g", "a", "z", "i">>
Str_creek == <<"c", "r", "e", "e", "k">>
Str_Creek_Road == <<"C", "r", "e", "e", "k", " ", "R", "o", "a", "d">>
Str_Nairobi == <<"N", "a", "i", "r", "o", "b", "i">>
Str_Mombasa_County == <<"M", "o", "m", "b", "a", "s", "a", " ", "C", "o", "u", "n", "t", "y">>
Str_unknown_age == <<"u", "n", "k", "n", "o", "w", "n", "-", "a", "g", "e">>
Str_old == <<"o", "l", "d">>

SpeciesKeys == {KENYA_MANGROVE_SPECIES[i].name : i \in 1..Len(KENYA_MANGROVE_SPECIES)}

SwahiliNames ==
    {KENYA_MANGROVE_SPECIES[i].swahili_name : i \in 1..Len(KENYA_MANGROVE_SPECIES)}

SiteKeys == {KENYA_COASTAL_REGIONS[i].name : i \in 1..Len(KENYA_COASTAL_REGIONS)}

Counties == {KENYA_COASTAL_REGIONS[i].county : i \in 1..Len(KENYA_COASTAL_REGIONS)}

SpeciesNameInputs ==
    UNION {{s, Upper(s), Title(s)} : s \in SpeciesKeys}
    \cup UNION {{s, Lower(s), Upper(s), SwapCase(s)} : s \in SwahiliNames}
    \cup {Str_rhizophora, Str_Marina, Str_a, <<>>, Str_the_ceriops_tagal_tree,
          Str_oak, Str_Unknown_Place, Str_Nairobi}

SiteNameInputs ==
    UNION {{s, Upper(s), Title(s)} : s \in SiteKeys}
    \cup UNION {{s, Lower(s), Upper(s)} : s \in Counties}
    \cup {Str_gazi, Str_creek, Str_a, <<>>, Str_Mombasa_County, Str_Creek_Road,
          Str_unknown_place, Str_Unknown_Place, Str_Nairobi}

LocationInputs ==
    {NoLocation}
    \cup {Location(s) : s \in SiteKeys}
    \cup {Location(s) : s \in {Title(Str_gazi_bay), Upper(Str_mombasa), Str_Kilifi,
                               Lower(Str_Kwale), Str_gazi, Str_creek, <<>>,
                               Str_Mombasa_County, Str_unknown_place}}

ForestAgeInputs ==
    UNION {{s, Upper(s), Title(s)} : s \in DOMAIN carbon_rates}
    \cup {Str_unknown_age, Str_old, <<>>}

AreaInputs ==
    {PyInt(i) : i \in {-1, 0, 1, 2, MaxArea}}
    \cup {PyFloat(i, 2) : i \in {-1, 0, 1, 5}}
    \cup {NaN, PosInf, NegInf, StrArea, NoneArea}

QuestionInputs == {"What are mangroves?", "How much carbon do mangroves store?"}

ModelOutcomes ==
    {Responded("Mangroves are salt-tolerant coastal trees."), Responded(""),
     Failed("quota exceeded"), Failed("API key not valid"), Failed("")}

(***************************************************************************)
(* The state: the two module-level tables, the last call and what it gave. *)
(***************************************************************************)
NoCall == [fn |-> "none"]

Init ==
    /\ species = KENYA_MANGROVE_SPECIES
    /\ regions = KENYA_COASTAL_REGIONS
    /\ call = NoCall
    /\ result = [status |-> "none"]
    /\ calls = 0

IdentifyMangroveSpecies ==
    \E species_name \in SpeciesNameInputs :
        /\ calls < MaxCalls
        /\ call' = [fn |-> "identify_mangrove_species", species_name |-> species_name]
        /\ result' = identify_mangrove_species(species, species_name)
        /\ calls' = calls + 1
        /\ UNCHANGED <<species, regions>>

GetSiteInformation ==
    \E location \in SiteNameInputs :
        /\ calls < MaxCalls
        /\ call' = [fn |-> "get_site_information", location |-> location]
        /\ result' = get_site_information(species, regions, location)
        /\ calls' = calls + 1
        /\ UNCHANGED <<species, regions>>

CalculateCarbonStorage ==
    \E area \in AreaInputs, forest_age \in ForestAgeInputs :
        /\ calls < MaxCalls
        /\ call' = [fn |-> "calculate_carbon_storage", area |-> area,
                    forest_age |-> forest_age]
        /\ result' = calculate_carbon_storage(area, forest_age)
        /\ calls' = calls + 1
        /\ UNCHANGED <<species, regions>>

\* variant: special_considerations aliases the site's threats list, so the
\* appended advisories land in the table
PlanRestoration_aliasThreats ==
    \E area_hectares \in AreaInputs, location \in LocationInputs :
        /\ calls < MaxCalls
        /\ call' = [fn |-> "plan_restoration", area_hectares |-> area_hectares,
                    location |-> location]
        /\ result' = plan_restoration(regions, area_hectares, location)
        /\ calls' = calls + 1
        /\ regions' =
              IF IsIntOrFloat(area_hectares) /\ ~LeqZero(area_hectares)
                 /\ LocationRecognized(regions, location)
              THEN [i \in 1..Len(regions) |->
                      IF regions[i].name = Lower(location.str)
                      THEN [regions[i] EXCEPT
                              !.threats = @ \o SpecialConsiderations(regions[i])]
                      ELSE regions[i]]
              ELSE regions
        /\ UNCHANGED species

PlanRestoration ==
    \E area_hectares \in AreaInputs, location \in LocationInputs :
        /\ calls < MaxCalls
        /\ call' = [fn |-> "plan_restoration", area_hectares |-> area_hectares,
                    location |-> location]
        /\ result' = plan_restoration(regions, area_hectares, location)
        /\ calls' = calls + 1
        /\ UNCHANGED <<species, regions>>

AnswerGeneralQuestion ==
    \E question \in QuestionInputs, outcome \in ModelOutcomes :
        /\ calls < MaxCalls
        /\ call' = [fn |-> "answer_general_question", question |-> question]
        /\ result' = answer_general_question(question, outcome)
        /\ calls' = calls + 1
        /\ UNCHANGED <<species, regions>>

Next ==
    \/ IdentifyMangroveSpecies
    \/ GetSiteInformation
    \/ CalculateCarbonStorage
    \/ PlanRestoration
    \/ AnswerGeneralQuestion

Spec == Init /\ [][Next]_vars

(***************************************************************************)
(* Vocabulary of the properties, stated over the tables as shipped.        *)
(***************************************************************************)
SpeciesIdx == 1..Len(KENYA_MANGROVE_SPECIES)

SiteIdx == 1..Len(KENYA_COASTAL_REGIONS)

Min(S) == CHOOSE x \in S : \A y \in S : x <= y

IsSuccess(r) == DOMAIN r = {"status", "report"} /\ r.status = "success"

IsError(r) == DOMAIN r = {"status", "error_message"} /\ r.status = "error"

\* a positive real number
PositiveArea(a) == IsFinite(a) /\ a.n > 0

\* k * a for an integer constant k
Times(k, a) == Mul(PyInt(k), a)

\* the sites a lowercased location matches by key (equal, contained or containing)
KeyMatches(l) ==
    {i \in SiteIdx : In(l, KENYA_COASTAL_REGIONS[i].name)
                     \/ In(KENYA_COASTAL_REGIONS[i].name, l)}

\* the sites whose administrative region equals the lowercased location
RegionMatches(l) == {i \in SiteIdx : Lower(KENYA_COASTAL_REGIONS[i].county) = l}

ExactMatches(l) == {i \in SiteIdx : KENYA_COASTAL_REGIONS[i].name = l}

\* the site picked by the three tiers in strict precedence, 0 when there is none
TieredSite(location) ==
    LET l == Lower(location)
    IN  IF ExactMatches(l) # {} THEN Min(ExactMatches(l))
        ELSE IF KeyMatches(l) # {} THEN Min(KeyMatches(l))
        ELSE IF RegionMatches(l) # {} THEN Min(RegionMatches(l))
        ELSE 0

ResolvableSpecies(key) == \E k \in SpeciesIdx : KENYA_MANGROVE_SPECIES[k].name = key

SwahiliOf(key) ==
    KENYA_MANGROVE_SPECIES[CHOOSE k \in SpeciesIdx :
                              KENYA_MANGROVE_SPECIES[k].name = key].swahili_name

\* a site's dominant species resolved against the species table, in stored order
ResolvedSpecies(i) ==
    LET kept == SelectSeq(KENYA_COASTAL_REGIONS[i].dominant_species, ResolvableSpecies)
    IN  [j \in 1..Len(kept) |-> [name |-> Title(kept[j]), swahili_name |-> SwahiliOf(kept[j])]]

HasThreat(i, threat) ==
    \E j \in 1..Len(KENYA_COASTAL_REGIONS[i].threats) :
        KENYA_COASTAL_REGIONS[i].threats[j] = threat

PollutionOrUrban(i) == HasThreat(i, "Urban expansion") \/ HasThreat(i, "Pollution")

\* local-currency cost of a plan customized for site i
SiteCost(i, a) ==
    LET base == Times(135000, a)
        c1 == IF PollutionOrUrban(i) THEN Add(base, Times(10000, a)) ELSE base
    IN  IF HasThreat(i, "Sedimentation") THEN Add(c1, Times(15000, a)) ELSE c1

SiteTimeline(i) == IF HasThreat(i, "Tourism development") THEN 30 ELSE 24

SiteAdvisories(i) ==
    (IF PollutionOrUrban(i)
     THEN <<"Community waste management education essential">> ELSE <<>>)
    \o (IF HasThreat(i, "Tourism development")
        THEN <<"Ecotourism integration recommended">> ELSE <<>>)
    \o (IF HasThreat(i, "Sedimentation")
        THEN <<"Soil erosion control measures required upland">> ELSE <<>>)

\* the report shows the customization for site i
CustomizedFor(report, i, a) ==
    /\ report.recommended_species =
          [j \in 1..Len(KENYA_COASTAL_REGIONS[i].dominant_species) |->
              Title(KENYA_COASTAL_REGIONS[i].dominant_species[j])]
    /\ report.estimated_cost_kes = SiteCost(i, a)
    /\ report.estimated_timeline_months = SiteTimeline(i)
    /\ report.special_considerations = SiteAdvisories(i)

\* the report shows the defaults
DefaultPlan(report, a) ==
    /\ report.recommended_species =
          <<Str_Rhizophora_mucronata, Str_Avicennia_marina, Str_Sonneratia_alba>>
    /\ report.estimated_cost_kes = Times(135000, a)
    /\ report.estimated_timeline_months = 24
    /\ report.special_considerations = <<>>

PlanCalled == call.fn = "plan_restoration"

CarbonCalled == call.fn = "calculate_carbon_storage"

(***************************************************************************)
(* C1                                                                      *)
(***************************************************************************)
\* C1, as stated: a successful plan_restoration shows the customization of a
\* site exactly when its location is a string get_site_information resolves
\* (exact key, substring either way, or region equality), and then of the site
\* that lookup resolves it to; every other location gets the defaults.
C1_CustomizedWheneverSiteResolves ==
    (PlanCalled /\ IsSuccess(result)) =>
        LET a == call.area_hectares
            i == IF call.location.is_none THEN 0 ELSE TieredSite(call.location.str)
        IN  IF i # 0 THEN CustomizedFor(result.report, i, a)
            ELSE DefaultPlan(result.report, a)

\* C1, amended: a successful plan_restoration shows the customization of a site
\* exactly when the location, lowercased, equals that site's key; every other
\* location (absent, empty, partial name, region name) gets the defaults.
C1_CustomizedIffExactKey ==
    (PlanCalled /\ IsSuccess(result)) =>
        LET a == call.area_hectares
            hit == IF call.location.is_none THEN {}
                   ELSE ExactMatches(Lower(call.location.str))
        IN  IF hit # {} THEN CustomizedFor(result.report, Min(hit), a)
            ELSE DefaultPlan(result.report, a)

\* a plan for "Gazi Bay" (the key in another letter case) is customized
C1_Witness ==
    /\ PlanCalled /\ IsSuccess(result)
    /\ call.location = Location(Title(Str_gazi_bay))
    /\ result.report.special_considerations =
          <<"Soil erosion control measures required upland">>

(***************************************************************************)
(* C2                                                                      *)
(***************************************************************************)
NoSiteMatches(s) == KeyMatches(Lower(s)) = {} /\ RegionMatches(Lower(s)) = {}

UnmatchedLocationCall ==
    /\ PlanCalled
    /\ PositiveArea(call.area_hectares)
    /\ ~call.location.is_none
    /\ call.location.str # <<>>
    /\ NoSiteMatches(call.location.str)

\* C2, as stated: for a positive area and a non-empty location matching no site
\* the plan succeeds with the defaults and reports location "Generic plan".
C2_UnmatchedLocationIsGenericPlan ==
    UnmatchedLocationCall =>
        /\ IsSuccess(result)
        /\ DefaultPlan(result.report, call.area_hectares)
        /\ result.report.location = Str_Generic_plan

\* C2, amended: for a positive area and a non-empty location matching no site
\* the plan succeeds with the defaults and reports the location title-cased;
\* "Generic plan" is reported only for an absent or empty location.
C2_UnmatchedLocationIsTitled ==
    /\ UnmatchedLocationCall =>
          /\ IsSuccess(result)
          /\ DefaultPlan(result.report, call.area_hectares)
          /\ result.report.location = Title(call.location.str)
    /\ (PlanCalled /\ IsSuccess(result) /\ result.report.location = Str_Generic_plan) =>
          (call.location.is_none \/ call.location.str = <<>>)

C2_Witness ==
    /\ UnmatchedLocationCall
    /\ call.area_hectares = PyInt(1)
    /\ call.location.str = Str_unknown_place
    /\ result.report.location = Str_Unknown_Place
    /\ result.report.estimated_cost_kes = PyInt(135000)

(***************************************************************************)
(* C3                                                                      *)
(***************************************************************************)
IdentifyCalled == call.fn = "identify_mangrove_species"

\* the input names record k: its key, its key upper-cased, or its local name
\* in any letter case
NamesSpecies(s, k) ==
    \/ s = KENYA_MANGROVE_SPECIES[k].name
    \/ s = Upper(KENYA_MANGROVE_SPECIES[k].name)
    \/ Lower(s) = Lower(KENYA_MANGROVE_SPECIES[k].swahili_name)

\* C3: identify_mangrove_species called with a key K, with K upper-cased or
\* with that record's local name in any letter case succeeds with exactly that
\* record's fields and K title-cased as the display name.
C3_KeyOrLocalNameFindsItsRecord ==
    IdentifyCalled =>
        \A k \in SpeciesIdx :
            NamesSpecies(call.species_name, k) =>
                /\ IsSuccess(result)
                /\ result.report =
                      [species |-> Title(KENYA_MANGROVE_SPECIES[k].name),
                       swahili_name |-> KENYA_MANGROVE_SPECIES[k].swahili_name,
                       characteristics |-> KENYA_MANGROVE_SPECIES[k].characteristics,
                       uses |-> KENYA_MANGROVE_SPECIES[k].uses,
                       conservation_status |->
                           KENYA_MANGROVE_SPECIES[k].conservation_status]

\* the last record is found by its local name in mixed case
C3_Witness ==
    /\ IdentifyCalled
    /\ call.species_name = SwapCase(Str_Muia)
    /\ IsSuccess(result)
    /\ result.report.species = Title(Str_bruguiera_gymnorrhiza)

(***************************************************************************)
(* C4                                                                      *)
(***************************************************************************)
SiteCalled == call.fn = "get_site_information"

\* C4: get_site_information answers with the site the three tiers pick in
\* strict precedence (exact key; else first key containing or contained in the
\* lowercased input; else first region equal to it), its dominant species
\* resolved against the species table in stored order, and with an error when
\* no tier picks a site; "Kilifi" gives Mida Creek.
C4_ThreeTierSiteSelection ==
    SiteCalled =>
        LET i == TieredSite(call.location)
        IN  /\ i = 0 => IsError(result)
            /\ i # 0 =>
                  /\ IsSuccess(result)
                  /\ Lower(result.report.location) = KENYA_COASTAL_REGIONS[i].name
                  /\ result.report.county = KENYA_COASTAL_REGIONS[i].county
                  /\ result.report.mangrove_area_hectares =
                        KENYA_COASTAL_REGIONS[i].mangrove_area_hectares
                  /\ result.report.threats = KENYA_COASTAL_REGIONS[i].threats
                  /\ result.report.dominant_species = ResolvedSpecies(i)
            /\ call.location = Str_Kilifi =>
                  /\ IsSuccess(result)
                  /\ result.report.location = Title(Str_mida_creek)
                  /\ result.report.dominant_species =
                        << [name |-> Title(Str_rhizophora_mucronata),
                            swahili_name |-> Str_Mkoko],
                           [name |-> Title(Str_avicennia_marina),
                            swahili_name |-> Str_Mchu] >>

\* "Kilifi" is answered with Mida Creek
C4_Witness ==
    /\ SiteCalled
    /\ call.location = Str_Kilifi
    /\ IsSuccess(result)
    /\ result.report.location = Title(Str_mida_creek)

(***************************************************************************)
(* C5                                                                      *)
(***************************************************************************)
RecognizedSiteCall ==
    /\ PlanCalled
    /\ PositiveArea(call.area_hectares)
    /\ ~call.location.is_none
    /\ ExactMatches(Lower(call.location.str)) # {}

\* C5: for a site recognized by its key and a positive area a the cost is
\* 135000*a, plus 10000*a once when the threats hold "Urban expansion" or
\* "Pollution", plus 15000*a when they hold "Sedimentation"; the timeline is 30
\* months with "Tourism development" and 24 otherwise; the advisories come in
\* the order pollution/urban, tourism, sedimentation.  (1, "gazi bay") gives
\* 150000, 24 months and one advisory.
C5_ThreatAdjustments ==
    RecognizedSiteCall =>
        LET i == Min(ExactMatches(Lower(call.location.str)))
            a == call.area_hectares
        IN  /\ IsSuccess(result)
            /\ result.report.estimated_cost_kes = SiteCost(i, a)
            /\ result.report.estimated_timeline_months = SiteTimeline(i)
            /\ result.report.special_considerations = SiteAdvisories(i)
            /\ (a = PyInt(1) /\ call.location.str = Str_gazi_bay) =>
                  /\ result.report.estimated_cost_kes = PyInt(150000)
                  /\ result.report.estimated_timeline_months = 24
                  /\ Len(result.report.special_considerations) = 1

\* Mombasa, with both "Urban expansion" and "Pollution", is charged once
C5_Witness ==
    /\ RecognizedSiteCall
    /\ call.area_hectares = PyInt(1)
    /\ call.location.str = Str_mombasa
    /\ IsSuccess(result)
    /\ result.report.estimated_cost_kes = PyInt(145000)

(***************************************************************************)
(* C6                                                                      *)
(***************************************************************************)
\* the rate the age class stands for, 392 for anything unrecognized
RateOf(age) ==
    IF Lower(age) = Str_young THEN 143
    ELSE IF Lower(age) = Str_middle_aged THEN 297
    ELSE 392

RecognizedAge(age) == Lower(age) \in {Str_young, Str_middle_aged, Str_mature}

\* C6: for a positive area a the age class is resolved case-insensitively to
\* 143, 297 or 392; any other age string gives the result of the call with
\* "mature"; total_carbon = a * rate, co2_equivalent = total_carbon * 3.67,
\* credit value = co2_equivalent * 15; area 10 with "mature" gives 3920,
\* 14386.4 and 215796.0.
C6_CarbonFormula ==
    (CarbonCalled /\ PositiveArea(call.area)) =>
        LET a == call.area
            rate == RateOf(call.forest_age)
            total == Times(rate, a)
            co2 == Mul(total, PyFloat(367, 100))
        IN  /\ IsSuccess(result)
            /\ result.report.carbon_per_hectare_tons = rate
            /\ result.report.forest_age =
                  (IF RecognizedAge(call.forest_age) THEN Lower(call.forest_age)
                   ELSE Str_mature)
            /\ result.report.total_carbon_tons = total
            /\ result.report.co2_equivalent_tons = co2
            /\ result.report.potential_carbon_credit_value_usd = Mul(co2, PyInt(15))
            /\ ~RecognizedAge(call.forest_age) =>
                  result = calculate_carbon_storage(a, Str_mature)
            /\ (a = PyInt(10) /\ rate = 392) =>
                  /\ result.report.total_carbon_tons = PyInt(3920)
                  /\ result.report.co2_equivalent_tons = PyFloat(143864, 10)
                  /\ result.report.potential_carbon_credit_value_usd = PyFloat(215796, 1)

\* area 10 with an unrecognized age class is computed as mature
C6_Witness ==
    /\ CarbonCalled
    /\ call.area = PyInt(10)
    /\ call.forest_age = Str_unknown_age
    /\ IsSuccess(result)
    /\ result.report.forest_age = Str_mature
    /\ result.report.co2_equivalent_tons = PyFloat(143864, 10)

(***************************************************************************)
(* C7                                                                      *)
(***************************************************************************)
AreaOfCall == IF CarbonCalled THEN call.area ELSE call.area_hectares

\* C7: calculate_carbon_storage and plan_restoration return the error result
\* with the one fixed message and no report for every area that is not a
\* positive number, and success for every positive number.
C7_AreaValidation ==
    (CarbonCalled \/ PlanCalled) =>
        IF PositiveArea(AreaOfCall) THEN IsSuccess(result)
        ELSE /\ IsError(result)
             /\ result.error_message =
                   "Please provide a valid positive number for area in hectares."

(***************************************************************************)
(* C8                                                                      *)
(***************************************************************************)
\* the lookup normalises its input, so the three tests are made on the
\* lowercased input
NoSpeciesMatches(s) ==
    \A k \in SpeciesIdx :
        /\ ~In(Lower(s), KENYA_MANGROVE_SPECIES[k].name)
        /\ ~In(KENYA_MANGROVE_SPECIES[k].name, Lower(s))
        /\ Lower(KENYA_MANGROVE_SPECIES[k].swahili_name) # Lower(s)

\* C8: identify_mangrove_species and get_site_information answer an input that
\* is in no table key, contains no table key and equals no local name (no
\* region, for a site) with an error whose message carries the input exactly
\* as passed.
C8_NotFoundEchoesInput ==
    /\ (IdentifyCalled /\ NoSpeciesMatches(call.species_name)) =>
          /\ IsError(result)
          /\ result.error_message.arg = call.species_name
    /\ (SiteCalled /\ NoSiteMatches(call.location)) =>
          /\ IsError(result)
          /\ result.error_message.arg = call.location

\* an unknown species name with capitals comes back unchanged
C8_Witness ==
    /\ IdentifyCalled
    /\ call.species_name = Str_Unknown_Place
    /\ IsError(result)
    /\ result.error_message.arg = Str_Unknown_Place

(***************************************************************************)
(* C9                                                                      *)
(***************************************************************************)
\* C9: every call returns a mapping whose status is "success" with a report
\* and no error_message, or "error" with an error_message and no report.
C9_UniformResultShape ==
    call.fn # "none" => (IsSuccess(result) \/ IsError(result))

(***************************************************************************)
(* C10                                                                     *)
(***************************************************************************)
\* what the call gives on the tables as shipped
OnInitialState ==
    IF IdentifyCalled
    THEN identify_mangrove_species(KENYA_MANGROVE_SPECIES, call.species_name)
    ELSE IF SiteCalled
    THEN get_site_information(KENYA_MANGROVE_SPECIES, KENYA_COASTAL_REGIONS,
                              call.location)
    ELSE IF CarbonCalled
    THEN calculate_carbon_storage(call.area, call.forest_age)
    ELSE plan_restoration(KENYA_COASTAL_REGIONS, call.area_hectares, call.location)

\* C10: no call changes the species table or the site table, and a call to one
\* of the four table functions gives, after any calls before it, what the same
\* call gives on the initial state.
C10_TablesNeverChange ==
    /\ species = KENYA_MANGROVE_SPECIES
    /\ regions = KENYA_COASTAL_REGIONS
    /\ (IdentifyCalled \/ SiteCalled \/ CarbonCalled \/ PlanCalled) =>
          result = OnInitialState

\* a site lookup made after an earlier call
C10_Witness ==
    /\ calls = MaxCalls
    /\ SiteCalled
    /\ call.location = Str_mombasa
    /\ IsSuccess(result)
    /\ result.report.threats = <<"Urban expansion", "Pollution", "Port activities">>

=============================================================================
